---- MODULE Spec2Model ----
(***************************************************************************)
(* Focus OS: the client-side gamification ledger (streak and XP kept in    *)
(* localStorage), the FocusOS page that drives it, the Pomodoro timer that *)
(* awards XP, and the LevelBadge that derives the level from the XP.       *)
(*                                                                         *)
(* JavaScript strings are sequences of characters, JavaScript numbers are  *)
(* records (an integer, or NaN), and the conversions Number() and String() *)
(* are computed digit by digit.                                            *)
(***************************************************************************)
EXTENDS Integers, Sequences, FiniteSets, TLC

\* ------------------------------------------------------------------ bounds
\* calendar days the wall clock ranges over (days of January 2024)
MaxDay == 3
\* mission completions recorded in one behaviour
MaxCalls == 3
\* task requests in flight at once
MaxInFlight == 1
\* focus phases completed in one behaviour
MaxFocusCompletions == 2
\* largest xp prop handed to the LevelBadge
MaxBadgeXp == 300
\* the same two bounds for the page taken together with its Pomodoro
MaxAppCalls == 2
MaxAppFocus == 1
MaxToasts == 6
MaxAdds == 3
\* the smallest xp prop handed to the LevelBadge is -LowBadgeXp (a negative
\* total is what Number() gives for a stored "-50")
LowBadgeXp == 150

Days == 1..MaxDay

\* ------------------------------------------------- JavaScript values
\* localStorage.getItem of a missing key
Null == <<"null">>

Num(n) == [nan |-> FALSE, v |-> n]
NaN == [nan |-> TRUE, v |-> 0]

\* a + b on JavaScript numbers
Plus(a, b) == IF a.nan \/ b.nan THEN NaN ELSE Num(a.v + b.v)

DigitChars == <<"0", "1", "2", "3", "4", "5", "6", "7", "8", "9">>

IsDigit(c) == \E i \in 1..10 : DigitChars[i] = c

DigitVal(c) == (CHOOSE i \in 1..10 : DigitChars[i] = c) - 1

IsDigits(s) == Len(s) > 0 /\ \A i \in 1..Len(s) : IsDigit(s[i])

RECURSIVE DigitsValue(_)
DigitsValue(s) ==
  IF s = <<>> THEN 0
  ELSE DigitsValue(SubSeq(s, 1, Len(s) - 1)) * 10 + DigitVal(s[Len(s)])

RECURSIVE NatToString(_)
NatToString(n) ==
  IF n < 10 THEN <<DigitChars[n + 1]>>
  ELSE NatToString(n \div 10) \o <<DigitChars[(n % 10) + 1]>>

\* Number(s): null and "" are 0, a decimal literal (an optional minus sign,
\* leading zeros allowed) is its value, any other string is NaN
Number(s) ==
  IF s = Null \/ s = <<>> THEN Num(0)
  ELSE IF IsDigits(s) THEN Num(DigitsValue(s))
  ELSE IF Head(s) = "-" /\ IsDigits(Tail(s)) THEN Num(0 - DigitsValue(Tail(s)))
  ELSE NaN

\* String(n) of a number
String(n) ==
  IF n.nan THEN <<"N", "a", "N">>
  ELSE IF n.v < 0 THEN <<"-">> \o NatToString(0 - n.v)
  ELSE NatToString(n.v)

\* v || '0' : null and the empty string are falsy
OrZero(v) == IF v = Null \/ v = <<>> THEN <<"0">> ELSE v

\* new Date().toDateString() on day d of January 2024, e.g. "Mon Jan 01 2024"
WeekDays == <<"Mon", "Tue", "Wed", "Thu", "Fri", "Sat", "Sun">>

toDateString(d) ==
  <<WeekDays[((d - 1) % 7) + 1], " ", "Jan", " ">>
    \o (IF d < 10 THEN <<"0">> ELSE <<>>) \o NatToString(d) \o <<" ", "2024">>

\* ------------------------------------------------------------------ state
\* GreetingPopup todayKey, `focus_greeting_shown_YYYYMMDD`, on day d of January 2024
GreetingKeys == <<"focus_greeting_shown_20240101", "focus_greeting_shown_20240102",
                  "focus_greeting_shown_20240103", "focus_greeting_shown_20240104",
                  "focus_greeting_shown_20240105", "focus_greeting_shown_20240106",
                  "focus_greeting_shown_20240107">>

todayKey(d) == GreetingKeys[d]

Keys ==
  {"focus_streak", "focus_streak_last_completion", "focus_xp", "focus_user", "focus_theme"}
    \cup {todayKey(d) : d \in Days}

MODES == <<[key |-> "25/5", focusMin |-> 25, breakMin |-> 5, points |-> 25],
           [key |-> "50/10", focusMin |-> 50, breakMin |-> 10, points |-> 50],
           [key |-> "quick", focusMin |-> 20, breakMin |-> 0, points |-> 20]>>

ModeKeys == {MODES[i].key : i \in 1..Len(MODES)}

VARIABLES
  localStorage,   \* the browser's storage: key -> string or Null
  today,          \* the calendar day the wall clock shows
  mounted,        \* FocusOS: the mount effects have run
  user,           \* FocusOS state
  loading,
  error,
  hasMission,     \* tasks hold a mission for MissionControl to show
  tasksInFlight,  \* /tasks requests not yet answered
  advice,         \* MissionCard state: the coach advice has arrived
  streakDays,     \* FocusOS state shown in the header
  xp,
  mode,           \* Pomodoro state
  secondsLeft,
  running,
  onBreak,
  hist,           \* history: one record per incrementStreak call
  xpLog,          \* history: stored total before, and points of, each focus phase that ran out
  badge,          \* LevelBadge: what it renders for its xp prop
  theme,          \* FocusOS state: "light" or "dark"
  greetingOpen,   \* GreetingPopup state `open` (FALSE while not mounted)
  greetingDay,    \* the day GreetingPopup computed todayKey on (0 while not mounted)
  lastOp,         \* history: the last Pomodoro operation and the state it acted on
  session,        \* the session store of the Svelte application
  sessionStored,  \* what its storage holds under focus_os_session
  allyMounted,    \* AllyStatus: onMount has run
  ally,           \* AllyStatus `ally`: {} for null, else {record}
  allyFor,        \* history: the operator name onMount read
  tabPc,          \* two tabs: where each tab is in incrementStreak
  tabStored,      \* two tabs: the local `stored` of each tab
  tabLast,        \* two tabs: the local `last` of each tab
  tabShown,       \* two tabs: the value each tab handed to its setter
  tabBase,        \* history: the count the storage held before the tabs began
  toasts,         \* React useToasts: the toast list, head first
  dismissTimers,  \* React useToasts: the pending setTimeout(dismiss) calls, in order
  storeToasts,    \* Svelte toast store: the list, in order
  removeTimers,   \* Svelte toast store: the pending setTimeout(remove) calls, in order
  now,            \* the last value Date.now() gave
  events,         \* history: how many toast events have arrived
  adds            \* history: how many times toasts.add has been called

pageVars == <<mounted, user, loading, error, hasMission, tasksInFlight, advice, streakDays, xp>>
pomodoroVars == <<mode, secondsLeft, running, onBreak>>
shellVars == <<theme, greetingOpen, greetingDay>>
svelteVars == <<session, sessionStored, allyMounted, ally, allyFor>>
tabVars == <<tabPc, tabStored, tabLast, tabShown, tabBase>>
toastVars == <<toasts, dismissTimers, storeToasts, removeTimers, now, events, adds>>
vars == <<localStorage, today, pageVars, pomodoroVars, hist, xpLog, badge,
          shellVars, lastOp, svelteVars, tabVars, toastVars>>

getItem(store, key) == store[key]

setItem(store, key, value) == [store EXCEPT ![key] = value]

removeItem(store, key) == [store EXCEPT ![key] = Null]

cfg == CHOOSE m \in {MODES[i] : i \in 1..Len(MODES)} : m.key = mode

cfgOf(k) == CHOOSE m \in {MODES[i] : i \in 1..Len(MODES)} : m.key = k

\* ------------------------------------------------------------ LevelBadge
\* a % b of JavaScript: the remainder takes the sign of the dividend
JsRem(a, b) == IF a >= 0 THEN a % b ELSE 0 - ((0 - a) % b)

Min(a, b) == IF a < b THEN a ELSE b

\* variant: Math.round in place of Math.floor
LevelOfRound(x) == ((x + 50) \div 100) + 1

\* Math.floor(xp / 100) + 1
LevelOf(x) == (x \div 100) + 1

\* variant: the progress is not reduced modulo 100
LevelBadgeNoWrap(x) ==
  [xp |-> x, level |-> LevelOf(x), curr |-> x, pct |-> Min(100, x)]

LevelBadge(x) ==
  [xp |-> x,
   level |-> LevelOf(x),
   curr |-> JsRem(x, 100),
   pct |-> Min(100, JsRem(x, 100))]

\* ------------------------------------------- page shell: theme and greeting
Themes == {<<"light">>, <<"dark">>}

\* !v for a string or null
Falsy(v) == v = Null \/ v = <<>>

\* GreetingPopup is constructed and its [todayKey] effect runs over `store`
GreetingMount(store) ==
  /\ greetingDay' = today
  /\ greetingOpen' = Falsy(getItem(store, todayKey(today)))

GreetingUnmount == greetingOpen' = FALSE /\ greetingDay' = 0

GreetingAbsent == greetingOpen = FALSE /\ greetingDay = 0

\* ------------------------------------------------ history of the Pomodoro
\* lastOp holds the Pomodoro operation that was the last step, with the state
\* it acted on and what it did to secondsLeft; NoOp after any other step
NoOp == [op |-> "none"]

\* what a step did to secondsLeft: left it, counted one second down, or set it
Moved ==
  IF secondsLeft' = secondsLeft THEN "same"
  ELSE IF secondsLeft' = secondsLeft - 1 THEN "down1"
  ELSE "set"

Op(name) ==
  [op |-> name, mode |-> mode, running |-> running, onBreak |-> onBreak,
   store |-> localStorage, moved |-> Moved]

\* --------------------------------------------- Svelte application: session
OperatorNames ==
  {<<"Ana">>, <<"Mateus">>, <<"ana">>, <<"MATEUS">>, <<"Bia">>, <<"Ana", " ">>, <<>>}

Operators == [id : {<<"1">>, <<"2">>}, name : OperatorNames, insignia : {<<"alpha">>}]

\* { isAuthenticated: false, operator: null }; operator is {} for null
LoggedOut == [isAuthenticated |-> FALSE, operator |-> {}]

SvelteConstruct ==
  /\ session = LoggedOut
  /\ sessionStored = Null
  /\ allyMounted = FALSE
  /\ ally = {}
  /\ allyFor = Null

\* ------------------------------------------------------ two browser tabs
Tabs == {1, 2}

TabsIdle ==
  /\ tabPc = [t \in Tabs |-> "idle"]
  /\ tabStored = [t \in Tabs |-> Num(0)]
  /\ tabLast = [t \in Tabs |-> Null]
  /\ tabShown = [t \in Tabs |-> Num(0)]
  /\ tabBase = Num(0)

\* ----------------------------------------------------------------- toasts
\* useState<ToastMessage[]>([]) and writable<ToastMessage[]>([]), no timer set
ToastsIdle ==
  /\ toasts = <<>>
  /\ dismissTimers = <<>>
  /\ storeToasts = <<>>
  /\ removeTimers = <<>>
  /\ now = 0
  /\ events = 0
  /\ adds = 0

\* -------------------------------------------------------------- Pomodoro
PomodoroInit ==
  /\ mode = "25/5"
  /\ secondsLeft = cfgOf("25/5").focusMin * 60
  /\ running = FALSE
  /\ onBreak = FALSE

\* the Pomodoro is unmounted (or mounted anew): its state is the initial one
PomodoroFresh ==
  /\ mode' = "25/5"
  /\ secondsLeft' = cfgOf("25/5").focusMin * 60
  /\ running' = FALSE
  /\ onBreak' = FALSE

\* ------------------------------------------------------------------ page
\* useState initial values of FocusOS
Construct ==
  /\ mounted = FALSE
  /\ user = Null
  /\ loading = TRUE
  /\ error = FALSE
  /\ hasMission = FALSE
  /\ tasksInFlight = 0
  /\ advice = FALSE
  /\ streakDays = Num(0)
  /\ xp = Num(0)

EmptyStorage == [k \in Keys |-> Null]

\* what is left of the state when a specification is about one part of it
Elsewhere ==
  /\ lastOp = NoOp
  /\ SvelteConstruct
  /\ TabsIdle
  /\ ToastsIdle

Init ==
  /\ localStorage = EmptyStorage
  /\ today \in Days
  /\ Construct
  /\ theme \in Themes
  /\ GreetingAbsent
  /\ PomodoroInit
  /\ hist = <<>>
  /\ xpLog = <<>>
  /\ badge = LevelBadge(0)
  /\ Elsewhere

\* MissionControl renders a MissionCard
MissionCardShown(u, l, e, h) == u # Null /\ ~l /\ ~e /\ h

\* MissionCard and the Pomodoro inside it keep their state only while mounted
CardState(shownAfter) ==
  IF MissionCardShown(user, loading, error, hasMission) /\ shownAfter
  THEN UNCHANGED <<advice, pomodoroVars>>
  ELSE advice' = FALSE /\ PomodoroFresh

\* the [theme] effect, the mount effect, then the [user] effect and the
\* greeting when a user was stored
Mount ==
  /\ ~mounted
  /\ mounted' = TRUE
  /\ localStorage' = setItem(localStorage, "focus_theme", theme)
  /\ streakDays' = Number(OrZero(getItem(localStorage, "focus_streak")))
  /\ xp' = Number(OrZero(getItem(localStorage, "focus_xp")))
  /\ LET storedUser == getItem(localStorage, "focus_user") IN
       IF storedUser # Null /\ storedUser # <<>>
       THEN /\ user' = storedUser
            /\ tasksInFlight' = tasksInFlight + 1
            /\ GreetingMount(localStorage')
       ELSE UNCHANGED <<user, tasksInFlight, greetingOpen, greetingDay>>
  /\ UNCHANGED <<loading, error, hasMission, advice, pomodoroVars>>
  /\ UNCHANGED <<today, hist, xpLog, badge, theme, svelteVars, tabVars, toastVars>>
  /\ lastOp' = NoOp

\* LoginScreen onLogin, then the [user] effect: fetchTasks starts
Login(u) ==
  /\ mounted
  /\ user = Null
  /\ tasksInFlight < MaxInFlight
  /\ user' = u
  /\ localStorage' = setItem(localStorage, "focus_user", u)
  /\ loading' = TRUE
  /\ error' = FALSE
  /\ tasksInFlight' = tasksInFlight + 1
  /\ CardState(FALSE)
  /\ GreetingMount(localStorage')
  /\ UNCHANGED <<mounted, hasMission, streakDays, xp, today, hist, xpLog, badge>>
  /\ UNCHANGED <<theme, svelteVars, tabVars, toastVars>>
  /\ lastOp' = NoOp

\* variant: logging out clears the storage
LogoutClears ==
  /\ mounted
  /\ user # Null
  /\ user' = Null
  /\ localStorage' = EmptyStorage
  /\ CardState(FALSE)
  /\ UNCHANGED <<mounted, loading, error, hasMission, tasksInFlight, streakDays, xp>>
  /\ GreetingUnmount
  /\ UNCHANGED <<today, hist, xpLog, badge, theme, svelteVars, tabVars, toastVars>>
  /\ lastOp' = NoOp

\* Header onLogout
Logout ==
  /\ mounted
  /\ user # Null
  /\ user' = Null
  /\ localStorage' = removeItem(localStorage, "focus_user")
  /\ CardState(FALSE)
  /\ UNCHANGED <<mounted, loading, error, hasMission, tasksInFlight, streakDays, xp>>
  /\ GreetingUnmount
  /\ UNCHANGED <<today, hist, xpLog, badge, theme, svelteVars, tabVars, toastVars>>
  /\ lastOp' = NoOp

\* fetchTasks: the response arrives
TasksResponse(ok, mission) ==
  /\ tasksInFlight > 0
  /\ tasksInFlight' = tasksInFlight - 1
  /\ loading' = FALSE
  /\ IF ok
     THEN hasMission' = mission /\ UNCHANGED error
     ELSE error' = TRUE /\ UNCHANGED hasMission
  /\ CardState(MissionCardShown(user, FALSE, error', hasMission'))
  /\ UNCHANGED <<mounted, user, streakDays, xp, localStorage, today, hist, xpLog, badge>>
  /\ UNCHANGED <<shellVars, svelteVars, tabVars, toastVars>>
  /\ lastOp' = NoOp

\* MissionCard fetchAdvice: the response arrives
AdviceResponse ==
  /\ MissionCardShown(user, loading, error, hasMission)
  /\ ~advice
  /\ advice' = TRUE
  /\ UNCHANGED <<mounted, user, loading, error, hasMission, tasksInFlight, streakDays, xp>>
  /\ UNCHANGED <<pomodoroVars, localStorage, today, hist, xpLog, badge>>
  /\ UNCHANGED <<shellVars, svelteVars, tabVars, toastVars>>
  /\ lastOp' = NoOp

\* the wall clock moves to another calendar day (midnight, or the clock or
\* the time zone is changed)
DayChanges ==
  /\ \E d \in Days : d # today /\ today' = d
  /\ UNCHANGED <<localStorage, pageVars, pomodoroVars, hist, xpLog, badge>>
  /\ UNCHANGED <<shellVars, svelteVars, tabVars, toastVars>>
  /\ lastOp' = NoOp

\* the page is loaded again: the components are constructed anew
Reload ==
  /\ mounted
  /\ mounted' = FALSE
  /\ user' = Null
  /\ loading' = TRUE
  /\ error' = FALSE
  /\ hasMission' = FALSE
  /\ tasksInFlight' = 0
  /\ advice' = FALSE
  /\ streakDays' = Num(0)
  /\ xp' = Num(0)
  /\ PomodoroFresh
  /\ LET stored == getItem(localStorage, "focus_theme") IN
       IF ~Falsy(stored) THEN theme' = stored ELSE theme' \in Themes
  /\ GreetingUnmount
  /\ UNCHANGED <<localStorage, today, hist, xpLog, badge, svelteVars, tabVars, toastVars>>
  /\ lastOp' = NoOp

\* CommandBar onToggleTheme, then the [theme] effect
ToggleTheme ==
  /\ mounted
  /\ user # Null
  /\ theme' = IF theme = <<"light">> THEN <<"dark">> ELSE <<"light">>
  /\ localStorage' = setItem(localStorage, "focus_theme", theme')
  /\ UNCHANGED <<today, pageVars, pomodoroVars, hist, xpLog, badge>>
  /\ UNCHANGED <<greetingOpen, greetingDay, svelteVars, tabVars, toastVars>>
  /\ lastOp' = NoOp

\* GreetingPopup close
GreetingClose ==
  /\ greetingOpen
  /\ localStorage' = setItem(localStorage, todayKey(greetingDay), <<"1">>)
  /\ greetingOpen' = FALSE
  /\ UNCHANGED <<today, pageVars, pomodoroVars, hist, xpLog, badge>>
  /\ UNCHANGED <<theme, greetingDay, svelteVars, tabVars, toastVars>>
  /\ lastOp' = NoOp

\* ---------------------------------------------------------- streak ledger
\* incrementStreak on calendar day `day`; `fault` names the setItem that throws
\* ("none": storage accepts every write). The result is the storage left
\* behind, whether the call threw, and the value handed to the setter.
\* variant: the last-completion date is never written
incrementStreakNoDate(store, day, fault) ==
  LET date == toDateString(day)
      stored == Number(OrZero(getItem(store, "focus_streak")))
      last == getItem(store, "focus_streak_last_completion")
      next == Plus(stored, Num(1))
  IN IF last # date
     THEN [store |-> setItem(store, "focus_streak", String(next)),
           threw |-> FALSE, value |-> next]
     ELSE [store |-> store, threw |-> FALSE, value |-> stored]

\* variant: the stored string is not converted, + 1 concatenates
incrementStreakConcat(store, day, fault) ==
  LET date == toDateString(day)
      raw == OrZero(getItem(store, "focus_streak"))
      last == getItem(store, "focus_streak_last_completion")
      next == raw \o <<"1">>
      afterBoth == setItem(setItem(store, "focus_streak", next),
                           "focus_streak_last_completion", date)
  IN IF last # date
     THEN [store |-> afterBoth, threw |-> FALSE, value |-> Number(next)]
     ELSE [store |-> store, threw |-> FALSE, value |-> Number(raw)]

\* variant: the else branch hands the incremented value to the setter
incrementStreakElseNext(store, day, fault) ==
  LET date == toDateString(day)
      stored == Number(OrZero(getItem(store, "focus_streak")))
      last == getItem(store, "focus_streak_last_completion")
      next == Plus(stored, Num(1))
      afterBoth == setItem(setItem(store, "focus_streak", String(next)),
                           "focus_streak_last_completion", date)
  IN IF last # date
     THEN [store |-> afterBoth, threw |-> FALSE, value |-> next]
     ELSE [store |-> store, threw |-> FALSE, value |-> next]

incrementStreak(store, day, fault) ==
  LET date == toDateString(day)
      stored == Number(OrZero(getItem(store, "focus_streak")))
      last == getItem(store, "focus_streak_last_completion")
      next == Plus(stored, Num(1))
      afterFirst == setItem(store, "focus_streak", String(next))
      afterBoth == setItem(afterFirst, "focus_streak_last_completion", date)
  IN IF last # date
     THEN IF fault = "first" THEN [store |-> store, threw |-> TRUE, value |-> NaN]
          ELSE IF fault = "second" THEN [store |-> afterFirst, threw |-> TRUE, value |-> NaN]
          ELSE [store |-> afterBoth, threw |-> FALSE, value |-> next]
     ELSE [store |-> store, threw |-> FALSE, value |-> stored]

\* refreshXp
\* variant: the header's xp is not read back from the storage
refreshXpStale(store) == Num(0)

refreshXp(store) == Number(OrZero(getItem(store, "focus_xp")))

\* the keys of the streak and XP ledger, and what a storage holds under them
LedgerKeys == {"focus_streak", "focus_streak_last_completion", "focus_xp"}

Ledger(store) == [k \in LedgerKeys |-> store[k]]

\* MissionControl onComplete (the "Marcar como concluida" button):
\* incrementStreak(setStreakDays); refreshXp(); the confetti burst and the
\* toast event change nothing modelled here. A throwing setItem ends the handler.
Complete(fault) ==
  /\ mounted
  /\ MissionCardShown(user, loading, error, hasMission)
  /\ advice
  /\ Len(hist) < MaxCalls
  /\ LET r == incrementStreak(localStorage, today, fault) IN
       /\ localStorage' = r.store
       /\ IF r.threw
          THEN UNCHANGED <<streakDays, xp>>
          ELSE streakDays' = r.value /\ xp' = refreshXp(r.store)
       /\ hist' = Append(hist, [day |-> today,
                                before |-> Ledger(localStorage),
                                after |-> Ledger(r.store),
                                written |-> {k \in Keys : r.store[k] # localStorage[k]},
                                threw |-> r.threw,
                                shown |-> streakDays'])
  /\ UNCHANGED <<mounted, user, loading, error, hasMission, tasksInFlight, advice>>
  /\ UNCHANGED <<pomodoroVars, today, xpLog, badge>>
  /\ UNCHANGED <<shellVars, svelteVars, tabVars, toastVars>>
  /\ lastOp' = NoOp

CompleteMission == Complete("none")

\* the same handler when localStorage.setItem throws (quota exceeded, storage
\* disabled) at its first or at its second write
CompleteMissionFault == \E fault \in {"first", "second"} : Complete(fault)

PageNext ==
  \/ Mount
  \/ \E u \in {<<"Ana">>, <<"Mateus">>} : Login(u)
  \/ Logout
  \/ \E ok \in BOOLEAN, mission \in BOOLEAN : TasksResponse(ok, mission)
  \/ AdviceResponse
  \/ DayChanges
  \/ Reload

Next == PageNext \/ CompleteMission

Spec == Init /\ [][Next]_vars

NextFault == PageNext \/ CompleteMission \/ CompleteMissionFault

SpecFault == Init /\ [][NextFault]_vars

\* -------------------------------------------------------- Pomodoro timer
PomodoroMounted == MissionCardShown(user, loading, error, hasMission) /\ advice

\* the phase-end effect has run for the current render (it runs right after
\* the render that shows secondsLeft < 0, before any other event is handled)
EffectsSettled == secondsLeft >= 0

\* a mode button, then the [cfg.focusMin] effect
SetMode(k) ==
  /\ PomodoroMounted
  /\ EffectsSettled
  /\ k # mode
  /\ mode' = k
  /\ running' = FALSE
  /\ onBreak' = FALSE
  /\ secondsLeft' = cfgOf(k).focusMin * 60
  /\ UNCHANGED <<localStorage, today, pageVars, hist, xpLog, badge>>
  /\ lastOp' = Op("setMode")
  /\ UNCHANGED <<shellVars, svelteVars, tabVars, toastVars>>

\* start ("Iniciar", shown while not running)
Start ==
  /\ PomodoroMounted
  /\ EffectsSettled
  /\ ~running
  /\ Len(xpLog) < MaxFocusCompletions
  /\ running' = TRUE
  /\ UNCHANGED <<mode, secondsLeft, onBreak, localStorage, today, pageVars, hist, xpLog, badge>>
  /\ lastOp' = Op("start")
  /\ UNCHANGED <<shellVars, svelteVars, tabVars, toastVars>>

\* pause ("Pausar", shown while running)
Pause ==
  /\ PomodoroMounted
  /\ EffectsSettled
  /\ running
  /\ running' = FALSE
  /\ UNCHANGED <<mode, secondsLeft, onBreak, localStorage, today, pageVars, hist, xpLog, badge>>
  /\ lastOp' = Op("pause")
  /\ UNCHANGED <<shellVars, svelteVars, tabVars, toastVars>>

\* variant: reset leaves the break flag as it is
ResetKeepsBreak ==
  /\ PomodoroMounted
  /\ EffectsSettled
  /\ running' = FALSE
  /\ secondsLeft' = cfg.focusMin * 60
  /\ UNCHANGED <<mode, onBreak, localStorage, today, pageVars, hist, xpLog, badge>>
  /\ lastOp' = Op("reset")
  /\ UNCHANGED <<shellVars, svelteVars, tabVars, toastVars>>

\* reset ("Resetar")
Reset ==
  /\ PomodoroMounted
  /\ EffectsSettled
  /\ running' = FALSE
  /\ onBreak' = FALSE
  /\ secondsLeft' = cfg.focusMin * 60
  /\ UNCHANGED <<mode, localStorage, today, pageVars, hist, xpLog, badge>>
  /\ lastOp' = Op("reset")
  /\ UNCHANGED <<shellVars, svelteVars, tabVars, toastVars>>

\* variant: the interval callback leaves secondsLeft as it is
TickStuck ==
  /\ PomodoroMounted
  /\ EffectsSettled
  /\ running
  /\ UNCHANGED vars

\* variant: the interval is not cleared when running goes false
TickWhilePaused ==
  /\ PomodoroMounted
  /\ EffectsSettled
  /\ secondsLeft' = secondsLeft - 1
  /\ xpLog' = IF secondsLeft - 1 < 0 /\ ~onBreak
              THEN Append(xpLog, [before |-> getItem(localStorage, "focus_xp"),
                                  points |-> cfg.points])
              ELSE xpLog
  /\ UNCHANGED <<mode, running, onBreak, localStorage, today, pageVars, hist, badge>>
  /\ lastOp' = Op("tick")
  /\ UNCHANGED <<shellVars, svelteVars, tabVars, toastVars>>

\* the one-second interval callback, set while running
Tick ==
  /\ PomodoroMounted
  /\ EffectsSettled
  /\ running
  /\ secondsLeft' = secondsLeft - 1
  /\ xpLog' = IF secondsLeft - 1 < 0 /\ ~onBreak
              THEN Append(xpLog, [before |-> getItem(localStorage, "focus_xp"),
                                  points |-> cfg.points])
              ELSE xpLog
  /\ UNCHANGED <<mode, running, onBreak, localStorage, today, pageVars, hist, badge>>
  /\ lastOp' = Op("tick")
  /\ UNCHANGED <<shellVars, svelteVars, tabVars, toastVars>>

\* variant: the stored string is not converted, + points concatenates
addXpConcat(store, points) ==
  setItem(store, "focus_xp",
          OrZero(getItem(store, "focus_xp")) \o NatToString(points))

\* variant: the points replace the stored total
addXpOverwrite(store, points) ==
  setItem(store, "focus_xp", String(Num(points)))

\* the XP addition of the phase-end effect
addXp(store, points) ==
  LET currentXp == Number(OrZero(getItem(store, "focus_xp")))
      nextXp == Plus(currentXp, Num(points))
  IN setItem(store, "focus_xp", String(nextXp))

\* variant: the end of a break awards the points too
PhaseEndBreakAward ==
  /\ PomodoroMounted
  /\ secondsLeft < 0
  /\ localStorage' = addXp(localStorage, cfg.points)
  /\ xp' = refreshXp(localStorage')
  /\ IF ~onBreak /\ cfg.breakMin > 0
     THEN /\ onBreak' = TRUE
          /\ secondsLeft' = cfg.breakMin * 60
          /\ UNCHANGED running
     ELSE /\ onBreak' = FALSE
          /\ running' = FALSE
          /\ secondsLeft' = cfg.focusMin * 60
  /\ UNCHANGED <<mode, today, hist, xpLog, badge>>
  /\ lastOp' = Op("phaseEnd")
  /\ UNCHANGED <<shellVars, svelteVars, tabVars, toastVars>>
  /\ UNCHANGED <<mounted, user, loading, error, hasMission, tasksInFlight, advice, streakDays>>

\* variant: the end of a break leaves the timer running
PhaseEndKeepsRunning ==
  /\ PomodoroMounted
  /\ secondsLeft < 0
  /\ IF ~onBreak
     THEN /\ localStorage' = addXp(localStorage, cfg.points)
          /\ xp' = refreshXp(localStorage')
          /\ IF cfg.breakMin > 0
             THEN /\ onBreak' = TRUE
                  /\ secondsLeft' = cfg.breakMin * 60
                  /\ UNCHANGED running
             ELSE /\ running' = FALSE
                  /\ onBreak' = FALSE
                  /\ secondsLeft' = cfg.focusMin * 60
     ELSE /\ onBreak' = FALSE
          /\ secondsLeft' = cfg.focusMin * 60
          /\ UNCHANGED <<running, localStorage, xp>>
  /\ UNCHANGED <<mode, today, hist, xpLog, badge>>
  /\ lastOp' = Op("phaseEnd")
  /\ UNCHANGED <<shellVars, svelteVars, tabVars, toastVars>>
  /\ UNCHANGED <<mounted, user, loading, error, hasMission, tasksInFlight, advice, streakDays>>

\* the phase-end effect; onFocusComplete is the page's refreshXp
PhaseEnd ==
  /\ PomodoroMounted
  /\ secondsLeft < 0
  /\ IF ~onBreak
     THEN /\ localStorage' = addXp(localStorage, cfg.points)
          /\ xp' = refreshXp(localStorage')
          /\ IF cfg.breakMin > 0
             THEN /\ onBreak' = TRUE
                  /\ secondsLeft' = cfg.breakMin * 60
                  /\ UNCHANGED running
             ELSE /\ running' = FALSE
                  /\ onBreak' = FALSE
                  /\ secondsLeft' = cfg.focusMin * 60
     ELSE /\ onBreak' = FALSE
          /\ running' = FALSE
          /\ secondsLeft' = cfg.focusMin * 60
          /\ UNCHANGED <<localStorage, xp>>
  /\ UNCHANGED <<mode, today, hist, xpLog, badge>>
  /\ lastOp' = Op("phaseEnd")
  /\ UNCHANGED <<shellVars, svelteVars, tabVars, toastVars>>
  /\ UNCHANGED <<mounted, user, loading, error, hasMission, tasksInFlight, advice, streakDays>>

PomodoroNext ==
  \/ \E k \in ModeKeys : SetMode(k)
  \/ Start
  \/ Pause
  \/ Reset
  \/ Tick
  \/ PhaseEnd

\* -------------------------------------------- the page with its Pomodoro
\* one calendar day of the whole page: the page's handlers run between the
\* renders of the timer, the timer runs from start to its end
InitApp == Init /\ today = 1

NextApp ==
  \/ EffectsSettled /\ Mount
  \/ EffectsSettled /\ \E u \in {<<"Ana">>, <<"Mateus">>} : Login(u)
  \/ EffectsSettled /\ Logout
  \/ EffectsSettled /\ \E ok \in BOOLEAN, mission \in BOOLEAN : TasksResponse(ok, mission)
  \/ EffectsSettled /\ AdviceResponse
  \/ EffectsSettled /\ Reload
  \/ EffectsSettled /\ Len(hist) < MaxAppCalls /\ CompleteMission
  \/ EffectsSettled /\ ToggleTheme
  \/ EffectsSettled /\ GreetingClose
  \/ Len(xpLog) < MaxAppFocus /\ Start
  \/ Tick
  \/ PhaseEnd

SpecApp == InitApp /\ [][NextApp]_vars

\* the page once a user is logged in, the tasks and the advice have arrived and
\* the mission card, with a Pomodoro just mounted, is shown
CardReady ==
  /\ mounted = TRUE
  /\ user = <<"Ana">>
  /\ loading = FALSE
  /\ error = FALSE
  /\ hasMission = TRUE
  /\ tasksInFlight = 0
  /\ advice = TRUE

\* totals an earlier session left under focus_xp (sums of MODES points)
StoredTotals == {95, 975}

InitXp ==
  /\ CardReady
  /\ \E stored \in {Null} \cup {String(Num(t)) : t \in StoredTotals} :
       localStorage = [EmptyStorage EXCEPT !["focus_user"] = user,
                                           !["focus_theme"] = <<"light">>,
                                           ![todayKey(1)] = <<"1">>,
                                           !["focus_xp"] = stored]
  /\ streakDays = Number(OrZero(getItem(localStorage, "focus_streak")))
  /\ xp = refreshXp(localStorage)
  /\ today = 1
  /\ theme = <<"light">>
  /\ greetingOpen = FALSE
  /\ greetingDay = today
  /\ PomodoroInit
  /\ hist = <<>>
  /\ xpLog = <<>>
  /\ badge = LevelBadge(0)
  /\ Elsewhere

SpecXp == InitXp /\ [][PomodoroNext]_vars

\* ------------------------------------------------ a timer left to run
\* the timer in any of its modes, started and then left alone: nothing is
\* pressed but start, the interval fires every second while the timer runs,
\* and the phase-end effect runs after the render that shows secondsLeft < 0
InitRun ==
  /\ CardReady
  /\ \E stored \in {Null} \cup {String(Num(t)) : t \in StoredTotals} :
       localStorage = [EmptyStorage EXCEPT !["focus_user"] = user,
                                           !["focus_theme"] = <<"light">>,
                                           ![todayKey(1)] = <<"1">>,
                                           !["focus_xp"] = stored]
  /\ streakDays = Number(OrZero(getItem(localStorage, "focus_streak")))
  /\ xp = refreshXp(localStorage)
  /\ today = 1
  /\ theme = <<"light">>
  /\ greetingOpen = FALSE
  /\ greetingDay = today
  /\ mode \in ModeKeys
  /\ secondsLeft = cfg.focusMin * 60
  /\ running = FALSE
  /\ onBreak = FALSE
  /\ hist = <<>>
  /\ xpLog = <<>>
  /\ badge = LevelBadge(0)
  /\ lastOp = IF mode = "25/5" THEN NoOp
              ELSE [op |-> "setMode", mode |-> "25/5", running |-> FALSE,
                    onBreak |-> FALSE, store |-> localStorage,
                    moved |-> "set"]
  /\ SvelteConstruct
  /\ TabsIdle
  /\ ToastsIdle

NextRun ==
  \/ Start
  \/ Tick
  \/ PhaseEnd

SpecRun == InitRun /\ [][NextRun]_vars /\ WF_vars(Tick) /\ WF_vars(PhaseEnd)

\* ------------------------------------------------------------ LevelBadge
\* the header renders <LevelBadge xp={x} />
Render(x) ==
  /\ badge' = LevelBadge(x)
  /\ UNCHANGED <<localStorage, today, pageVars, pomodoroVars, hist, xpLog,
               shellVars, lastOp, svelteVars, tabVars, toastVars>>

InitLevel ==
  /\ localStorage = EmptyStorage
  /\ today = 1
  /\ Construct
  /\ theme = <<"light">>
  /\ GreetingAbsent
  /\ PomodoroInit
  /\ hist = <<>>
  /\ xpLog = <<>>
  /\ badge = LevelBadge(0)
  /\ Elsewhere

NextLevel == \E x \in (0 - LowBadgeXp)..MaxBadgeXp : Render(x)

SpecLevel == InitLevel /\ [][NextLevel]_vars

\* ------------------------------------------- Svelte application: AllyStatus
\* JSON.stringify(sessionState), token by token
stringify(st) ==
  <<"{", "isAuthenticated", ":", IF st.isAuthenticated THEN "true" ELSE "false",
    ",", "operator", ":">>
    \o (IF st.operator = {} THEN <<"null">>
        ELSE LET o == CHOOSE x \in st.operator : TRUE IN
             <<"{", "id", ":">> \o o.id \o <<",", "name", ":">> \o o.name
               \o <<",", "insignia", ":">> \o o.insignia \o <<"}">>)
    \o <<"}">>

\* the position of the first token `tok` of text at or after position `from`
IndexOf(text, tok, from) ==
  CHOOSE i \in from..Len(text) :
    text[i] = tok /\ \A j \in from..(i - 1) : text[j] # tok

\* the value tokens of member `key`: from after its colon to the next comma or brace
Member(text, key) ==
  LET k == IndexOf(text, key, 1)
      end == CHOOSE i \in (k + 2)..Len(text) :
               text[i] \in {",", "}"} /\ \A j \in (k + 2)..(i - 1) : text[j] \notin {",", "}"}
  IN SubSeq(text, k + 2, end - 1)

\* JSON.parse(text) of a stored session
parse(text) ==
  LET opAt == IndexOf(text, "operator", 1)
      opText == SubSeq(text, opAt + 2, Len(text) - 1)
  IN [isAuthenticated |-> Member(text, "isAuthenticated") = <<"true">>,
      operator |-> IF opText = <<"null">> THEN {}
                   ELSE {[id |-> Member(opText, "id"),
                          name |-> Member(opText, "name"),
                          insignia |-> Member(opText, "insignia")]}]

\* session.login(operator)
SessionLogin(o) ==
  /\ session' = [isAuthenticated |-> TRUE, operator |-> {o}]
  /\ sessionStored' = stringify(session')
  /\ UNCHANGED <<allyMounted, ally, allyFor>>
  /\ UNCHANGED <<localStorage, today, pageVars, pomodoroVars, hist, xpLog, badge>>
  /\ UNCHANGED <<shellVars, lastOp, tabVars, toastVars>>

\* session.logout()
SessionLogout ==
  /\ session' = LoggedOut
  /\ sessionStored' = Null
  /\ UNCHANGED <<allyMounted, ally, allyFor>>
  /\ UNCHANGED <<localStorage, today, pageVars, pomodoroVars, hist, xpLog, badge>>
  /\ UNCHANGED <<shellVars, lastOp, tabVars, toastVars>>

\* the page is loaded: the store starts from what the storage holds
SessionLoad ==
  /\ session' = IF sessionStored = Null THEN LoggedOut ELSE parse(sessionStored)
  /\ allyMounted' = FALSE
  /\ ally' = {}
  /\ allyFor' = Null
  /\ UNCHANGED sessionStored
  /\ UNCHANGED <<localStorage, today, pageVars, pomodoroVars, hist, xpLog, badge>>
  /\ UNCHANGED <<shellVars, lastOp, tabVars, toastVars>>

\* the mock roster of AllyStatus
operatorsData ==
  [Mateus |-> [name |-> <<"Mateus">>, status |-> <<"ONLINE">>,
               currentMission |-> <<"Math">>, streak |-> 5],
   Ana |-> [name |-> <<"Ana">>, status |-> <<"IN-MISSION">>,
            currentMission |-> <<"Organic Chemistry">>, streak |-> 7]]

\* $session.operator?.name
currentOperatorName ==
  IF session.operator = {} THEN Null
  ELSE (CHOOSE o \in session.operator : TRUE).name

\* variant: the roster is looked up by the operator's own name
resolveAllyOwn(name, before) ==
  IF name = <<"Mateus">> THEN {operatorsData.Mateus}
  ELSE IF name = <<"Ana">> THEN {operatorsData.Ana}
  ELSE before

\* the body of onMount: the ally for operator `name`, `before` when none is set
resolveAlly(name, before) ==
  IF name = <<"Mateus">> THEN {operatorsData.Ana}
  ELSE IF name = <<"Ana">> THEN {operatorsData.Mateus}
  ELSE before

\* AllyStatus is created and its onMount runs
AllyMount ==
  /\ ~allyMounted
  /\ allyMounted' = TRUE
  /\ ally' = resolveAlly(currentOperatorName, {})
  /\ allyFor' = currentOperatorName
  /\ UNCHANGED <<session, sessionStored>>
  /\ UNCHANGED <<localStorage, today, pageVars, pomodoroVars, hist, xpLog, badge>>
  /\ UNCHANGED <<shellVars, lastOp, tabVars, toastVars>>

\* AllyStatus is destroyed
AllyDestroy ==
  /\ allyMounted
  /\ allyMounted' = FALSE
  /\ ally' = {}
  /\ allyFor' = Null
  /\ UNCHANGED <<session, sessionStored>>
  /\ UNCHANGED <<localStorage, today, pageVars, pomodoroVars, hist, xpLog, badge>>
  /\ UNCHANGED <<shellVars, lastOp, tabVars, toastVars>>

NextAlly ==
  \/ \E o \in Operators : SessionLogin(o)
  \/ SessionLogout
  \/ SessionLoad
  \/ AllyMount
  \/ AllyDestroy

SpecAlly == InitLevel /\ [][NextAlly]_vars

\* ------------------------------------------- incrementStreak in two tabs
\* Each tab runs incrementStreak on the shared storage; a tab's reads and
\* writes are single steps, and the steps of the two tabs interleave freely.
\* tabPc names the statement a tab executes next.
\* variant: the count is advanced by two
tabNextTwo(stored) == Plus(stored, Num(2))

\* const next = stored + 1
tabNext(stored) == Plus(stored, Num(1))

\* const stored = Number(localStorage.getItem(key) || '0')
TabReadStored(t) ==
  /\ tabPc[t] = "stored"
  /\ tabStored' = [tabStored EXCEPT ![t] = Number(OrZero(getItem(localStorage, "focus_streak")))]
  /\ tabPc' = [tabPc EXCEPT ![t] = "last"]
  /\ UNCHANGED <<localStorage, tabLast, tabShown>>
  /\ UNCHANGED <<today, pageVars, pomodoroVars, hist, xpLog, badge>>
  /\ UNCHANGED <<shellVars, lastOp, svelteVars, tabBase, toastVars>>

\* const last = localStorage.getItem(metaKey); if (last !== today)
TabReadLast(t) ==
  /\ tabPc[t] = "last"
  /\ tabLast' = [tabLast EXCEPT ![t] = getItem(localStorage, "focus_streak_last_completion")]
  /\ tabPc' = [tabPc EXCEPT ![t] = IF tabLast'[t] # toDateString(today)
                                   THEN "setKey" ELSE "setter"]
  /\ UNCHANGED <<localStorage, tabStored, tabShown>>
  /\ UNCHANGED <<today, pageVars, pomodoroVars, hist, xpLog, badge>>
  /\ UNCHANGED <<shellVars, lastOp, svelteVars, tabBase, toastVars>>

\* localStorage.setItem(key, String(next))
TabWriteCount(t) ==
  /\ tabPc[t] = "setKey"
  /\ localStorage' = setItem(localStorage, "focus_streak", String(tabNext(tabStored[t])))
  /\ tabPc' = [tabPc EXCEPT ![t] = "setMeta"]
  /\ UNCHANGED <<tabStored, tabLast, tabShown>>
  /\ UNCHANGED <<today, pageVars, pomodoroVars, hist, xpLog, badge>>
  /\ UNCHANGED <<shellVars, lastOp, svelteVars, tabBase, toastVars>>

\* localStorage.setItem(metaKey, today)
TabWriteDate(t) ==
  /\ tabPc[t] = "setMeta"
  /\ localStorage' = setItem(localStorage, "focus_streak_last_completion", toDateString(today))
  /\ tabPc' = [tabPc EXCEPT ![t] = "setter"]
  /\ UNCHANGED <<tabStored, tabLast, tabShown>>
  /\ UNCHANGED <<today, pageVars, pomodoroVars, hist, xpLog, badge>>
  /\ UNCHANGED <<shellVars, lastOp, svelteVars, tabBase, toastVars>>

\* setter(() => next) or setter(() => stored)
TabSetter(t) ==
  /\ tabPc[t] = "setter"
  /\ tabShown' = [tabShown EXCEPT ![t] = IF tabLast[t] # toDateString(today)
                                         THEN tabNext(tabStored[t]) ELSE tabStored[t]]
  /\ tabPc' = [tabPc EXCEPT ![t] = "done"]
  /\ UNCHANGED <<localStorage, tabStored, tabLast>>
  /\ UNCHANGED <<today, pageVars, pomodoroVars, hist, xpLog, badge>>
  /\ UNCHANGED <<shellVars, lastOp, svelteVars, tabBase, toastVars>>

\* counts an earlier day left under focus_streak
StoredCounts == {Null, <<"1">>, <<"9">>}

\* both tabs have just entered incrementStreak on the same calendar day; the
\* storage holds an earlier count, and no date, another day's or today's
InitTabs ==
  /\ today \in {1, 2}
  /\ \E s \in StoredCounts, l \in {Null} \cup {toDateString(d) : d \in {1, 2}} :
       /\ (s = Null) = (l = Null)
       /\ localStorage = [EmptyStorage EXCEPT !["focus_streak"] = s,
                                              !["focus_streak_last_completion"] = l]
  /\ tabBase = Ledger(localStorage)
  /\ tabPc = [t \in Tabs |-> "stored"]
  /\ tabStored = [t \in Tabs |-> Num(0)]
  /\ tabLast = [t \in Tabs |-> Null]
  /\ tabShown = [t \in Tabs |-> Num(0)]
  /\ Construct
  /\ theme = <<"light">>
  /\ GreetingAbsent
  /\ PomodoroInit
  /\ hist = <<>>
  /\ xpLog = <<>>
  /\ badge = LevelBadge(0)
  /\ lastOp = NoOp
  /\ SvelteConstruct
  /\ ToastsIdle

NextTabs ==
  \E t \in Tabs :
    \/ TabReadStored(t)
    \/ TabReadLast(t)
    \/ TabWriteCount(t)
    \/ TabWriteDate(t)
    \/ TabSetter(t)

SpecTabs == InitTabs /\ [][NextTabs]_vars

\* ------------------------------------------- storage left in any condition
\* values found under focus_streak and focus_xp when the storage was written
\* by something else: missing, empty, not a number, a number
FoundValues == {Null, <<>>, <<"a", "b", "c">>, <<"0", "7">>}

InitFound ==
  /\ Construct
  /\ \E s \in FoundValues, x \in FoundValues :
       localStorage = [EmptyStorage EXCEPT !["focus_user"] = <<"Ana">>,
                                           !["focus_streak"] = s,
                                           !["focus_xp"] = x]
  /\ today = 1
  /\ theme = <<"light">>
  /\ GreetingAbsent
  /\ PomodoroInit
  /\ hist = <<>>
  /\ xpLog = <<>>
  /\ badge = LevelBadge(0)
  /\ Elsewhere

NextFound ==
  \/ Mount
  \/ \E ok \in BOOLEAN, mission \in BOOLEAN : TasksResponse(ok, mission)
  \/ AdviceResponse
  \/ CompleteMission
  \/ Start
  \/ Tick
  \/ PhaseEnd

SpecFound == InitFound /\ [][NextFound]_vars

\* ======================================================= streak properties
streakOf(store) == getItem(store, "focus_streak")

lastOf(store) == getItem(store, "focus_streak_last_completion")

countOf(store) == Number(OrZero(streakOf(store)))

Calls == 1..Len(hist)

SameDay(i, j) == \A k \in i..j : hist[k].day = hist[i].day

\* C1: any run of registerCompletion calls on one calendar date, starting from
\* a persisted last-completion date other than that date, leaves the persisted
\* count exactly 1 above the count the run started from.
C1_SameDayCountsOnce ==
  \A i \in Calls : \A j \in i..Len(hist) :
    (SameDay(i, j) /\ lastOf(hist[i].before) # toDateString(hist[i].day))
      => /\ countOf(hist[j].after) = Plus(countOf(hist[i].before), Num(1))
         /\ streakOf(hist[j].after) = String(Plus(countOf(hist[i].before), Num(1)))

C1_Witness ==
  \E i \in Calls : \E j \in i..Len(hist) :
    /\ j >= i + 1
    /\ SameDay(i, j)
    /\ lastOf(hist[i].before) # toDateString(hist[i].day)
    /\ countOf(hist[i].before) = Num(1)

\* every call is on the date of the call before it or on the next date
ConsecutiveDates == \A i \in 1..(Len(hist) - 1) : hist[i + 1].day - hist[i].day \in {0, 1}

DistinctDates == Cardinality({hist[i].day : i \in Calls})

\* C2: from no persisted state, registerCompletion calls over N distinct
\* consecutive calendar dates in order (any number of calls per date) leave the
\* persisted count, the count handed to the page and the count shown at N.
C2_ConsecutiveDatesCountN ==
  (Len(hist) > 0 /\ ConsecutiveDates)
    => /\ streakOf(localStorage) = String(Num(DistinctDates))
       /\ hist[Len(hist)].shown = Num(DistinctDates)
       /\ mounted => streakDays = Num(DistinctDates)

C2_Witness ==
  /\ Len(hist) = 3
  /\ ConsecutiveDates
  /\ hist[2].day = hist[1].day
  /\ hist[3].day = hist[1].day + 1
  /\ mounted
  /\ streakDays = Num(2)

\* C3: for calls with arbitrary dates the count never decreases, every change
\* is +1 and the number of increments is the number of distinct dates passed.
C3_OncePerDistinctDate ==
  /\ \A i \in Calls :
       \/ countOf(hist[i].after) = countOf(hist[i].before)
       \/ countOf(hist[i].after) = Plus(countOf(hist[i].before), Num(1))
  /\ countOf(localStorage) = Num(DistinctDates)

\* C4: a call on the persisted last-completion date writes nothing and hands
\* back the persisted count.
C4_SameDateWritesNothing ==
  \A i \in Calls :
    lastOf(hist[i].before) = toDateString(hist[i].day)
      => /\ hist[i].after = hist[i].before
         /\ hist[i].written = {}
         /\ ~hist[i].threw
         /\ hist[i].shown = countOf(hist[i].before)
         /\ String(hist[i].shown) = streakOf(hist[i].after)

C4_Witness ==
  \E i \in Calls :
    /\ lastOf(hist[i].before) = toDateString(hist[i].day)
    /\ hist[i].shown = Num(2)

\* C5: after any call, one with a failing storage write included, the count
\* and the last-completion date are both the new values or both the old ones.
C5_PairIsAtomic ==
  \A i \in Calls :
    \/ /\ streakOf(hist[i].after) = streakOf(hist[i].before)
       /\ lastOf(hist[i].after) = lastOf(hist[i].before)
    \/ /\ streakOf(hist[i].after) = String(Plus(countOf(hist[i].before), Num(1)))
       /\ lastOf(hist[i].after) = toDateString(hist[i].day)

\* the dates of the calls never go back
DatesInOrder == \A i \in 1..(Len(hist) - 1) : hist[i + 1].day >= hist[i].day

\* the number of consecutive days, ending with the day of the last call, on
\* which a completion was registered
RunLength ==
  LET done == {hist[i].day : i \in Calls}
      end == hist[Len(hist)].day
  IN Cardinality({d \in done : d <= end /\ \A e \in d..end : e \in done})

\* C7: the streak count is the number of consecutive calendar days, ending with
\* the most recent completion date, on which a completion was registered.
C7_CountIsConsecutiveRun ==
  (Len(hist) > 0 /\ DatesInOrder) => countOf(localStorage) = Num(RunLength)

\* =========================================================== XP properties
\* the focus phase that just ran out has not had its XP added yet
AwardPending == secondsLeft < 0 /\ ~onBreak

\* focus phases whose XP addition has run
Awarded == IF AwardPending THEN Len(xpLog) - 1 ELSE Len(xpLog)

\* the persisted total right after the n-th addition
TotalAfter(n) ==
  IF n < Len(xpLog) THEN xpLog[n + 1].before ELSE getItem(localStorage, "focus_xp")

RECURSIVE SumPoints(_)
SumPoints(n) == IF n = 0 THEN 0 ELSE SumPoints(n - 1) + xpLog[n].points

\* C8: adding a and then b leaves the persisted total that one addition of
\* a + b to the same starting total leaves.
C8_AdditionIsAdditive ==
  \A n \in 1..(Awarded - 1) :
    TotalAfter(n + 1) =
      getItem(addXp(setItem(EmptyStorage, "focus_xp", xpLog[n].before),
                    xpLog[n].points + xpLog[n + 1].points),
              "focus_xp")

C8_Witness ==
  /\ Awarded = 2
  /\ xpLog[1].points # xpLog[2].points
  /\ xpLog[1].before = Null

xpTotal == Number(OrZero(getItem(localStorage, "focus_xp")))

C9_Sum ==
  /\ \A n \in 1..Awarded :
       /\ TotalAfter(n) = NatToString(Number(OrZero(xpLog[1].before)).v + SumPoints(n))
       /\ Number(OrZero(xpLog[n].before)) =
            Plus(Number(OrZero(xpLog[1].before)), Num(SumPoints(n - 1)))
  /\ IsDigits(OrZero(getItem(localStorage, "focus_xp")))
  /\ EffectsSettled => xp = xpTotal

\* C9: every addition reads the persisted total (absent as 0) and persists
\* total + points, so focus_xp is a non-negative integer that never decreases,
\* changes only when a focus phase is awarded, and is the total it started
\* from plus the sum of the points of the focus phases completed.
C9_XpIsSumOfPoints ==
  /\ []C9_Sum
  /\ [][/\ xpTotal'.v >= xpTotal.v
        /\ getItem(localStorage', "focus_xp") # getItem(localStorage, "focus_xp")
             => /\ Awarded' = Awarded + 1
                /\ xpTotal' = Plus(xpTotal, Num(xpLog[Awarded'].points))]_vars

C9_Witness ==
  /\ Awarded = 2
  /\ xpLog[1].before = <<"9", "5">>
  /\ getItem(localStorage, "focus_xp") = <<"1", "4", "0">>
  /\ xp = Num(140)

\* a stored value that is absent or is not a number
Unreadable(v) == v = Null \/ v = <<>> \/ Number(v).nan

IsCount(n) == ~n.nan /\ n.v >= 0

\* C6: an absent or unreadable stored streak or XP value counts as zero: what
\* is then computed, persisted and shown is a non-negative integer, the prior
\* value 0 plus the increment.
C6_UnreadableReadsAsZero ==
  /\ mounted => IsCount(streakDays) /\ IsCount(xp)
  /\ \A i \in Calls :
       (Unreadable(streakOf(hist[i].before))
          /\ lastOf(hist[i].before) # toDateString(hist[i].day))
         => streakOf(hist[i].after) = <<"1">> /\ hist[i].shown = Num(1)
  /\ \A n \in 1..Awarded :
       Unreadable(xpLog[n].before) => TotalAfter(n) = NatToString(xpLog[n].points)

\* ======================================================== level properties
C10_LevelState ==
  /\ (badge.level - 1) * 100 <= badge.xp
  /\ badge.xp < badge.level * 100
  /\ badge.xp = 0 => badge.level = 1
  /\ badge.xp = 99 => badge.level = 1
  /\ badge.xp = 100 => badge.level = 2
  /\ badge.xp = 250 => badge.level = 3

\* C10: for every non-negative totalXp the level shown is
\* floor(totalXp / 100) + 1 (1 at 0 and 99, 2 at 100, 3 at 250), and the level
\* never decreases when totalXp increases.
C10_LevelIsFloorPlusOne ==
  /\ []C10_LevelState
  /\ [][badge'.xp >= badge.xp => badge'.level >= badge.level]_vars

C10_Witness == badge.xp = 250 /\ badge.level = 3

C11_Progress ==
  /\ badge.curr = badge.xp % 100
  /\ badge.curr >= 0
  /\ badge.curr <= 100
  /\ badge.pct = badge.curr
  /\ (badge.level - 1) * 100 + badge.curr = badge.xp
  /\ badge.xp = 250 => badge.curr = 50

\* C11 as stated: for every integer totalXp the progress within the level is
\* totalXp mod 100, lies in [0,100], and (level - 1) * 100 + progress = totalXp.
C11_ProgressEveryInteger == C11_Progress

\* C11: for every non-negative integer totalXp the progress within the level
\* is totalXp mod 100, lies in [0,100] (50 at 250), and
\* (level - 1) * 100 + progress = totalXp.
C11_ProgressNonNegative == badge.xp >= 0 => C11_Progress

C11_Witness == badge.xp = 250 /\ badge.curr = 50 /\ badge.pct = 50

\* ========================================================= ally resolution
RosterRecords == {operatorsData.Mateus, operatorsData.Ana}

\* C12: once onMount has resolved the ally for the operator name it read, the
\* ally is the Mateus record for "Ana", the Ana record for "Mateus", absent
\* for any other or missing name, and never the record of that operator.
C12_AllyIsTheOther ==
  allyMounted =>
    /\ allyFor = <<"Ana">> => ally = {operatorsData.Mateus}
    /\ allyFor = <<"Mateus">> => ally = {operatorsData.Ana}
    /\ allyFor \notin {<<"Ana">>, <<"Mateus">>} => ally = {}
    /\ ally \subseteq RosterRecords
    /\ \A a \in ally : a.name # allyFor

C12_Witness ==
  /\ allyMounted
  /\ allyFor = <<"Ana">>
  /\ ally = {operatorsData.Mateus}
  /\ session.isAuthenticated

\* ===================================================== frame of the ledger
StreakKept ==
  /\ streakOf(localStorage') = streakOf(localStorage)
  /\ lastOf(localStorage') = lastOf(localStorage)

XpKept == getItem(localStorage', "focus_xp") = getItem(localStorage, "focus_xp")

C13_Step ==
  /\ (\/ \E u \in {<<"Ana">>, <<"Mateus">>} : Login(u)
      \/ Logout
      \/ ToggleTheme
      \/ GreetingClose
      \/ \E ok \in BOOLEAN, mission \in BOOLEAN : TasksResponse(ok, mission))
       => StreakKept /\ XpKept
  /\ CompleteMission => XpKept
  /\ PhaseEnd => StreakKept
  /\ ~StreakKept => CompleteMission
  /\ ~XpKept => PhaseEnd /\ AwardPending
  /\ \A k \in LedgerKeys :
       getItem(localStorage, k) # Null => getItem(localStorage', k) # Null

\* C13: login, logout, theme toggle, greeting close and task responses leave
\* focus_streak, focus_streak_last_completion and focus_xp as they are; a
\* mission completion leaves focus_xp and a focus completion leaves both
\* streak fields as they are; the streak fields change only in a mission
\* completion, focus_xp only in the XP addition; no step removes any of them.
C13_LedgerFrame == [][C13_Step]_vars

C13_Witness ==
  /\ mounted
  /\ user = Null
  /\ streakOf(localStorage) = <<"1">>
  /\ lastOf(localStorage) = toDateString(1)
  /\ getItem(localStorage, "focus_xp") = <<"2", "5">>
  /\ getItem(localStorage, todayKey(1)) = <<"1">>
  /\ getItem(localStorage, "focus_theme") # Null

\* ================================================================ two tabs
TabsDone == \A t \in Tabs : tabPc[t] = "done"

\* the date was not yet registered when the tabs began
DateWasNew == lastOf(tabBase) # toDateString(today)

xpOf(ledger) == Number(OrZero(ledger["focus_xp"]))

\* C15: a completion handler that ran to its end leaves the persisted XP
\* total 10 higher and the persisted streak count 1 higher than it found them.
C15_CompletionGrantsXpAndStreak ==
  \A i \in Calls :
    ~hist[i].threw
      => /\ xpOf(hist[i].after) = Plus(xpOf(hist[i].before), Num(10))
         /\ countOf(hist[i].after) = Plus(countOf(hist[i].before), Num(1))

\* ================================================= header and storage agree
\* C16: once the mount effect has run, and whenever no phase-end effect is
\* pending, so after every completion handler and every focus-completion
\* callback, streakDays and xp are the numbers persisted under focus_streak
\* and focus_xp.
C16_HeaderShowsPersisted ==
  (mounted /\ EffectsSettled)
    => /\ streakDays = countOf(localStorage)
       /\ xp = xpOf(Ledger(localStorage))

C16_Witness ==
  /\ mounted
  /\ EffectsSettled
  /\ Len(hist) >= 1
  /\ Len(xpLog) >= 1
  /\ streakDays = Num(1)
  /\ xp = Num(25)
  /\ streakOf(localStorage) = <<"1">>
  /\ getItem(localStorage, "focus_xp") = <<"2", "5">>

\* ======================================================== Pomodoro steps
\* lastOp is the Pomodoro operation that led to the current state
After(ops) == lastOp.op \in ops

FocusEnded == After({"phaseEnd"}) /\ ~lastOp.onBreak

BreakEnded == After({"phaseEnd"}) /\ lastOp.onBreak

FocusReady == ~running /\ ~onBreak /\ secondsLeft = cfg.focusMin * 60

\* C17: the phase-end effect after a focus phase raises the persisted total
\* by the points of the selected mode (25, 50 or 20), once for each focus
\* phase that ran out and right after the tick that took secondsLeft below
\* zero; the end of a break, start, pause, reset, a mode change and ticks
\* leave focus_xp as it is.
C17_AwardOnlyAtFocusEnd ==
  /\ FocusEnded
       => /\ xpTotal = Plus(xpOf(lastOp.store), Num(cfgOf(lastOp.mode).points))
          /\ cfgOf(lastOp.mode).points \in {25, 50, 20}
          /\ lastOp.mode = "25/5" => cfgOf(lastOp.mode).points = 25
          /\ lastOp.mode = "50/10" => cfgOf(lastOp.mode).points = 50
          /\ lastOp.mode = "quick" => cfgOf(lastOp.mode).points = 20
          /\ Awarded = Len(xpLog)
          /\ xpLog[Len(xpLog)] =
               [before |-> lastOp.store["focus_xp"], points |-> cfgOf(lastOp.mode).points]
  /\ (BreakEnded \/ After({"start", "pause", "reset", "setMode", "tick"}))
       => getItem(localStorage, "focus_xp") = lastOp.store["focus_xp"]
  /\ AwardPending => After({"tick"}) /\ lastOp.running /\ ~lastOp.onBreak
  /\ \A n \in 1..(Len(xpLog) - 1) :
       Number(OrZero(xpLog[n + 1].before)) =
         Plus(Number(OrZero(xpLog[n].before)), Num(xpLog[n].points))

C17_Witness ==
  /\ FocusEnded
  /\ lastOp.mode = "50/10"
  /\ lastOp.store["focus_xp"] = <<"2", "5">>
  /\ getItem(localStorage, "focus_xp") = <<"7", "5">>

\* C18: after the phase-end effect of a focus phase the timer is on break
\* with breakMin*60 seconds and still running when the mode has a break, and
\* stopped at focusMin*60, never on break, when it has none; after the
\* phase-end effect of a break it is stopped, off break, at focusMin*60.
C18_PhaseTransitions ==
  /\ (FocusEnded /\ cfgOf(lastOp.mode).breakMin > 0)
       => /\ onBreak
          /\ secondsLeft = cfgOf(lastOp.mode).breakMin * 60
          /\ lastOp.running
          /\ running
  /\ (FocusEnded /\ cfgOf(lastOp.mode).breakMin = 0)
       => FocusReady /\ secondsLeft = cfgOf(lastOp.mode).focusMin * 60
  /\ BreakEnded
       => FocusReady /\ secondsLeft = cfgOf(lastOp.mode).focusMin * 60
  /\ After({"phaseEnd"}) => mode = lastOp.mode
  /\ cfg.breakMin = 0 => ~onBreak

C18_Witness ==
  /\ BreakEnded
  /\ mode = "50/10"
  /\ secondsLeft = 3000
  /\ ~running
  /\ ~onBreak

\* C19: after reset, and after a change to another mode, the timer is
\* stopped, not on break, at focusMin*60 seconds of the mode then selected
\* (reset keeps the mode), and the ledger keys hold what they held; both are
\* available in every state of the mounted timer.
C19_ResetAndModeChange ==
  /\ After({"reset", "setMode"})
       => /\ FocusReady
          /\ Ledger(localStorage) = Ledger(lastOp.store)
          /\ localStorage = lastOp.store
  /\ After({"reset"}) => mode = lastOp.mode
  /\ After({"setMode"}) => mode # lastOp.mode
  /\ (PomodoroMounted /\ EffectsSettled)
       => /\ ENABLED Reset
          /\ \A k \in ModeKeys \ {mode} : ENABLED SetMode(k)

C19_Witness ==
  /\ After({"reset"})
  /\ lastOp.running
  /\ lastOp.onBreak
  /\ lastOp.mode = "25/5"
  /\ FocusReady
  /\ secondsLeft = 1500

\* ===================================================== a run of the timer
\* a focus phase is under way, n focus phases having run out before it
InFocus(n) == running /\ ~onBreak /\ EffectsSettled /\ Len(xpLog) = n

\* the timer is back at rest after its (n + 1)-th focus phase ran out
AtRest(n) == FocusReady /\ Len(xpLog) = n + 1 /\ Awarded = n + 1

C20_RunStep ==
  /\ (~onBreak /\ onBreak') => AwardPending
  /\ (onBreak /\ ~onBreak') => ~running'
  /\ (running /\ ~running')
       => /\ FocusReady'
          /\ onBreak \/ (AwardPending /\ cfg.breakMin = 0)
  /\ Len(xpLog') # Len(xpLog) => (running /\ ~onBreak /\ Len(xpLog') = Len(xpLog) + 1)
  /\ AwardPending
       => /\ ~AwardPending'
          /\ Number(OrZero(getItem(localStorage', "focus_xp")))
               = Plus(xpTotal, Num(cfg.points))
  /\ ~AwardPending => XpKept

\* C20: a started timer that is left alone while its ticks keep firing comes
\* to rest (stopped, off break, secondsLeft = focusMin*60), with exactly one
\* more focus phase run out and awarded than before the start; a break is
\* entered only at that award and left only into the rest state, so the run
\* passes through at most one break.
C20_RunComesToRest ==
  /\ \A n \in 0..(MaxFocusCompletions - 1) : InFocus(n) ~> AtRest(n)
  /\ [][C20_RunStep]_vars

C20_Witness ==
  /\ AtRest(0)
  /\ BreakEnded
  /\ mode = "25/5"
  /\ getItem(localStorage, "focus_xp") = <<"1", "2", "0">>

\* ================================================================ toasts
\* Date.now(): the clock has moved on since it was last read, or has not
Clock == {now, now + 1}

\* the React and Svelte applications are apart: a toast step leaves the rest
ToastFrame ==
  /\ UNCHANGED <<localStorage, today, pageVars, pomodoroVars, hist, xpLog, badge>>
  /\ UNCHANGED <<shellVars, svelteVars, tabVars>>

\* a.slice(0, 5)
slice5(a) == SubSeq(a, 1, Min(5, Len(a)))

\* t.filter((x) => x.id !== id)
without(t, id) == SelectSeq(t, LAMBDA x : x.id # id)

\* variant: the arriving toast is put at the end of the list
arriveAtEnd(detail, t) == slice5(t \o <<detail>>)

\* (t) => [{ ...e.detail }, ...t].slice(0, 5)
arrive(detail, t) == slice5(<<detail>> \o t)

\* the "focusos:toast" listener of useToasts, set while the page is mounted:
\* the dispatcher made the id from Date.now(); n stands for the rest of the
\* detail, different at every event
ToastEvent ==
  /\ mounted
  /\ events < MaxToasts
  /\ \E ms \in Clock :
       LET detail == [id |-> ms, n |-> events + 1] IN
       /\ toasts' = arrive(detail, toasts)
       /\ dismissTimers' = Append(dismissTimers, detail)
       /\ now' = ms
  /\ events' = events + 1
  /\ lastOp' = [op |-> "toastEvent", before |-> toasts]
  /\ UNCHANGED <<storeToasts, removeTimers, adds>>
  /\ ToastFrame

\* variant: the timer's callback removes nothing
DismissTimerIdle ==
  /\ dismissTimers # <<>>
  /\ dismissTimers' = Tail(dismissTimers)
  /\ lastOp' = [op |-> "dismiss", before |-> toasts, timer |-> Head(dismissTimers)]
  /\ UNCHANGED <<toasts, storeToasts, removeTimers, now, events, adds>>
  /\ ToastFrame

\* setTimeout(() => dismiss(e.detail.id), 3000) fires: the delays are equal, so
\* the timers fire in the order they were set
DismissTimer ==
  /\ dismissTimers # <<>>
  /\ toasts' = without(toasts, Head(dismissTimers).id)
  /\ dismissTimers' = Tail(dismissTimers)
  /\ lastOp' = [op |-> "dismiss", before |-> toasts, timer |-> Head(dismissTimers)]
  /\ UNCHANGED <<storeToasts, removeTimers, now, events, adds>>
  /\ ToastFrame

\* one of the two buttons of AllyStatus: toasts.add(message, type), duration 4000
Add(type) ==
  /\ allyMounted
  /\ ally # {}
  /\ adds < MaxAdds
  /\ \E id \in Clock :
       LET toast == [id |-> id, n |-> adds + 1, type |-> type, duration |-> 4000] IN
       /\ storeToasts' = Append(storeToasts, toast)
       /\ removeTimers' = Append(removeTimers, toast)
       /\ now' = id
  /\ adds' = adds + 1
  /\ lastOp' = [op |-> "add", before |-> storeToasts]
  /\ UNCHANGED <<toasts, dismissTimers, events>>
  /\ ToastFrame

\* setTimeout(() => remove(id), duration) fires, in the order the timers were set
RemoveTimer ==
  /\ removeTimers # <<>>
  /\ storeToasts' = without(storeToasts, Head(removeTimers).id)
  /\ removeTimers' = Tail(removeTimers)
  /\ lastOp' = [op |-> "remove", before |-> storeToasts, timer |-> Head(removeTimers)]
  /\ UNCHANGED <<toasts, dismissTimers, now, events, adds>>
  /\ ToastFrame

\* the React page with its card on screen
InitToastReact ==
  /\ InitXp
  /\ getItem(localStorage, "focus_xp") = Null

\* the Svelte application with Ana logged in and AllyStatus on screen
InitToastSvelte ==
  /\ localStorage = EmptyStorage
  /\ today = 1
  /\ Construct
  /\ theme = <<"light">>
  /\ GreetingAbsent
  /\ PomodoroInit
  /\ hist = <<>>
  /\ xpLog = <<>>
  /\ badge = LevelBadge(0)
  /\ lastOp = NoOp
  /\ session = [isAuthenticated |-> TRUE,
                operator |-> {[id |-> <<"1">>, name |-> <<"Ana">>,
                               insignia |-> <<"alpha">>]}]
  /\ sessionStored = stringify(session)
  /\ allyMounted = TRUE
  /\ ally = resolveAlly(currentOperatorName, {})
  /\ allyFor = currentOperatorName
  /\ TabsIdle
  /\ ToastsIdle

\* a browser tab holds one of the two applications
InitToast == InitToastReact \/ InitToastSvelte

NextToast ==
  \/ ToastEvent
  \/ DismissTimer
  \/ \E type \in {"encouragement", "taunt"} : Add(type)
  \/ RemoveTimer

SpecToast == InitToast /\ [][NextToast]_vars

\* a timer that has been set fires
SpecToastFair == SpecToast /\ WF_vars(DismissTimer) /\ WF_vars(RemoveTimer)

\* ================================================== the timer's invariants
\* the length in seconds of the phase the timer is in
PhaseLength == IF onBreak THEN cfg.breakMin * 60 ELSE cfg.focusMin * 60

TimerInRange ==
  /\ secondsLeft >= 0 - 1
  /\ secondsLeft <= PhaseLength
  /\ onBreak => cfg.breakMin > 0

\* C21 as stated: secondsLeft is between -1 and the length of the current
\* phase of the selected mode, onBreak only when the mode has breakMin > 0,
\* and the only operation that changes secondsLeft is a tick while running:
\* every other operation, and every operation on a paused timer, leaves it.
C21_OnlyTickMovesSecondsLeft ==
  /\ TimerInRange
  /\ lastOp # NoOp
       => /\ lastOp.moved # "same" => (lastOp.op = "tick" /\ lastOp.running)
          /\ ~lastOp.running => lastOp.moved = "same"

\* C21 amended: secondsLeft is between -1 and the length of the current phase
\* of the selected mode and onBreak only when the mode has breakMin > 0; a
\* tick happens only while running and takes exactly one second off; start
\* and pause leave secondsLeft; every other change sets it to the length of
\* a phase: reset and a mode change (running or paused) to focusMin*60, the
\* phase-end effect to the length of the phase it enters.
C21_TimerInvariants ==
  /\ TimerInRange
  /\ After({"tick"}) => (lastOp.running /\ lastOp.moved = "down1")
  /\ After({"start", "pause"}) => lastOp.moved = "same"
  /\ After({"reset", "setMode"}) => secondsLeft = cfg.focusMin * 60
  /\ After({"phaseEnd"}) => secondsLeft = PhaseLength
  /\ (lastOp # NoOp /\ lastOp.moved = "set")
       => After({"reset", "setMode", "phaseEnd"})

\* a paused 50/10 break, part of it counted down, is reset
C21_Witness ==
  /\ After({"reset"})
  /\ lastOp.mode = "50/10"
  /\ lastOp.onBreak
  /\ ~lastOp.running
  /\ lastOp.moved = "set"
  /\ secondsLeft = 3000

\* ======================================================= the React toast list
Elems(q) == {q[i] : i \in 1..Len(q)}

\* the toast that arrived last is at the head, the one that arrived first at the end
NewestFirst(t) == \A i, j \in 1..Len(t) : i < j => t[i].n > t[j].n

\* C22: the React toast list never holds more than 5 toasts and is ordered
\* newest first; an arriving toast is placed at the head, in front of the
\* toasts that were there, in their order; when the list held 5, the one
\* dropped is the oldest of them and the other four stay.
C22_AtMostFiveNewestFirst ==
  /\ Len(toasts) <= 5
  /\ NewestFirst(toasts)
  /\ After({"toastEvent"})
       => /\ Head(toasts).n = events
          /\ \A i \in 1..Len(lastOp.before) : Head(toasts).n > lastOp.before[i].n
          /\ Len(lastOp.before) < 5 => Tail(toasts) = lastOp.before
          /\ Len(lastOp.before) = 5
               => /\ Tail(toasts) = SubSeq(lastOp.before, 1, 4)
                  /\ \A i \in 1..4 : lastOp.before[5].n < lastOp.before[i].n
                  /\ lastOp.before[5] \notin Elems(toasts)

\* a sixth toast has arrived while five were shown
C22_Witness ==
  /\ After({"toastEvent"})
  /\ Len(lastOp.before) = 5
  /\ Len(toasts) = 5
  /\ Head(toasts).n = 6
  /\ toasts[5].n = 2

\* ============================================== every toast is removed
Listed(k) == \E i \in 1..Len(toasts) : toasts[i].n = k

Stored(k) == \E i \in 1..Len(storeToasts) : storeToasts[i].n = k

\* the toasts a timer's callback took out of the list
Taken(after) == Elems(lastOp.before) \ Elems(after)

EmptyOnceFired ==
  /\ dismissTimers = <<>> => toasts = <<>>
  /\ removeTimers = <<>> => storeToasts = <<>>

ToastsLeave ==
  /\ \A k \in 1..MaxToasts : Listed(k) ~> ~Listed(k)
  /\ \A k \in 1..MaxAdds : Stored(k) ~> ~Stored(k)

\* C23 as stated: every added toast is eventually removed, each one by its
\* own timer (it is in the list when the timer set at its arrival fires, and
\* that timer takes it out), and the list is empty once all timers have fired.
C23_EachByItsOwnTimer ==
  /\ ToastsLeave
  /\ []EmptyOnceFired
  /\ [](After({"dismiss"})
         => lastOp.timer \in Elems(lastOp.before) /\ lastOp.timer \notin Elems(toasts))
  /\ [](After({"remove"})
         => lastOp.timer \in Elems(lastOp.before) /\ lastOp.timer \notin Elems(storeToasts))

\* C23 amended: every added toast is eventually removed, no later than the
\* firing of its own timer: a listed toast always has its own timer pending,
\* a firing timer takes out exactly the listed toasts that have its id and
\* leaves the others in their order, and the list is empty once all timers
\* have fired. A toast can leave earlier than its own timer: with the timer of
\* a toast that was given the same id, and, in the React hook, as the oldest
\* of five when a sixth arrives.
C23_ToastsAreRemoved ==
  /\ ToastsLeave
  /\ []EmptyOnceFired
  /\ [](Elems(toasts) \subseteq Elems(dismissTimers))
  /\ [](Elems(storeToasts) \subseteq Elems(removeTimers))
  /\ [](After({"dismiss"})
         => /\ toasts = without(lastOp.before, lastOp.timer.id)
            /\ \A x \in Taken(toasts) : x.id = lastOp.timer.id
            /\ lastOp.timer \notin Elems(toasts))
  /\ [](After({"remove"})
         => /\ storeToasts = without(lastOp.before, lastOp.timer.id)
            /\ \A x \in Taken(storeToasts) : x.id = lastOp.timer.id
            /\ lastOp.timer \notin Elems(storeToasts))

\* the last timer has fired and taken the last toast out of the React list,
\* after a toast had been dropped as the oldest of five
C23_Witness ==
  /\ After({"dismiss"})
  /\ lastOp.before = <<lastOp.timer>>
  /\ lastOp.timer.n = 6
  /\ toasts = <<>>
  /\ dismissTimers = <<>>

====
